---- MODULE Spec2Model ----
(***************************************************************************)
(* Model of the signoff Dagger module (eunomie/daggerverse, signoff).      *)
(*                                                                         *)
(* A Signoff session owns one Container.  Every operation appends execs    *)
(* to that container with WithExec (m.Container = m.Container.WithExec)    *)
(* and then reads the result of the container's last exec through the      *)
(* accessors Stdout, Stderr, ExitCode and Out.                             *)
(*                                                                         *)
(* Strings are sequences of tokens (a token is a character or an opaque    *)
(* chunk of text), so that concatenation, strings.TrimSpace and %q are     *)
(* computed and not assumed.  A Go error is Nil (<<>>) or <<message>>.     *)
(* Each caller (goroutine invoking an exposed function) runs a stack of    *)
(* frames; one action is one access to the shared m.Container together     *)
(* with the local code that follows it.                                    *)
(***************************************************************************)
EXTENDS Integers, Sequences, FiniteSets, TLC

(* ------------------------------ bounds -------------------------------- *)

\* Number of exposed functions invoked on the session in one behaviour.
MaxOps == 2

\* Number of execs the invoked functions may append to the session's container.
MaxExecs == 6

\* The same number when the callers do not serialize their access to the session.
MaxOverlapExecs == 2

\* The goroutines that may invoke functions on the one session.
Callers == {1, 2}

\* What running a command can yield: it succeeds or fails, and prints a line
\* on stdout or nothing.
Results ==
    { [stdout |-> <<>>, stderr |-> <<>>, exitCode |-> 0],
      [stdout |-> <<"a", "\n">>, stderr |-> <<>>, exitCode |-> 0],
      [stdout |-> <<>>, stderr |-> <<"e">>, exitCode |-> 1],
      [stdout |-> <<"a", "\n">>, stderr |-> <<"e">>, exitCode |-> 1] }

\* The branch argument of Install and Uninstall (<<>> is "not set").
Branches == {<<>>, <<"b">>}

\* The check name option of the constructor: absent, or a given name.
CheckNameOpts == {<<>>, << <<"ci">> >>}

(* ------------------------------ strings ------------------------------- *)

S(t) == <<t>>

IsSpace(c) == c \in {" ", "\n", "\t", "\r"}

RECURSIVE TrimLeft(_)
TrimLeft(s) ==
    IF s = <<>> THEN <<>>
    ELSE IF IsSpace(Head(s)) THEN TrimLeft(Tail(s)) ELSE s

RECURSIVE TrimRight(_)
TrimRight(s) ==
    IF s = <<>> THEN <<>>
    ELSE IF IsSpace(s[Len(s)]) THEN TrimRight(SubSeq(s, 1, Len(s) - 1)) ELSE s

\* strings.TrimSpace
TrimSpace(s) == TrimRight(TrimLeft(s))

\* strings.Contains
Contains(s, sub) ==
    \E i \in 0..(Len(s) - Len(sub)) : SubSeq(s, i + 1, i + Len(sub)) = sub

\* One token as the %q verb prints it inside the quotes.
QuoteTok(c) ==
    CASE c = "\n" -> "\\n"
      [] c = "\t" -> "\\t"
      [] c = "\r" -> "\\r"
      [] c = "\"" -> "\\\""
      [] OTHER -> c

\* fmt's %q: the string in double quotes with Go escapes.
Quote(s) == <<"\"">> \o [i \in 1..Len(s) |-> QuoteTok(s[i])] \o <<"\"">>

(* ------------------------------- errors ------------------------------- *)

\* The check mark U+2713 that starts the lines the module prints.
CheckMark == "U+2713"

Nil == <<>>
Err(msg) == <<msg>>

\* fmt.Errorf("...%w...") : the message of a non-nil error.
Msg(e) == e[1]

ErrUncommitted == Err(S("found uncommitted changes in the repo"))
ErrNoTracking == Err(S("no tracking branch found"))
ErrUnpushed == Err(S("found unpushed commits in the repo"))

\* The error an accessor returns when the engine cannot evaluate the container.
DaggerErr == Err(S("dagger: query failed"))

ExitErr(code) == Err(<<"exit code ", ToString(code)>>)

(* --------------------------- command lines ---------------------------- *)

\* base(): the last exec of the container the constructor builds.
SetupGitArgs ==
    <<S("gh"), S("auth"), S("setup-git"), S("--force"), S("--hostname"), S("github.com")>>

GitStatusArgs == <<S("status"), S("--porcelain")>>
RevParsePushArgs == <<S("rev-parse"), S("--abbrev-ref"), S("@{push}")>>
LogPushArgs == <<S("log"), S("@{push}..")>>
RevParseHeadArgs == <<S("rev-parse"), S("HEAD")>>
WhoAmIArgs == <<S("api"), S("user"), S("--jq"), S(".login")>>
DefaultBranchArgs == <<S("api"), S("repos/:owner/:repo"), S("--jq"), S(".default_branch")>>

\* Mutant of StatusArgs: the context is fixed and the user is not filled in.
StatusArgs_FixedContext(sha, checkName, user) ==
    << S("api"),
       S("--method"), S("POST"),
       <<"repos/:owner/:repo/statuses/">> \o sha,
       S("-f"), S("state=success"),
       S("-f"), S("context=signoff"),
       S("-f"), S("description=\"${user} signed off\"") >>

\* The arguments of the commit status request of Create.
StatusArgs(sha, checkName, user) ==
    << S("api"),
       S("--method"), S("POST"),
       <<"repos/:owner/:repo/statuses/">> \o sha,
       S("-f"), S("state=success"),
       S("-f"), <<"context=">> \o checkName,
       S("-f"), <<"description=\"">> \o user \o <<" signed off\"">> >>

ProtectionPath(branch) ==
    <<"/repos/:owner/:repo/branches/">> \o branch \o <<"/protection">>

\* The arguments of the branch protection request of Install.
InstallArgs(branch, checkName) ==
    << S("api"),
       ProtectionPath(branch),
       S("--method"), S("PUT"),
       S("-H"), S("Accept: application/vnd.github+json"),
       S("-H"), S("X-GitHub-Api-Version: 2022-11-28"),
       S("--field"), S("required_status_checks[strict]=false"),
       S("--field"), <<"required_status_checks[contexts][]=">> \o checkName,
       S("--field"), S("enforce_admins=null"),
       S("--field"), S("required_pull_request_reviews=null"),
       S("--field"), S("restrictions=null") >>

\* The arguments of the branch protection request of Uninstall.
UninstallArgs(branch) ==
    <<S("api"), ProtectionPath(branch), S("--method"), S("DELETE")>>

PullsArgs(defaultBranch) ==
    << S("api"),
       S("repos/:owner/:repo/pulls"),
       S("--jq"),
       <<".[] | select(.state == \"open\") | select(.base.ref == \"">>
           \o defaultBranch \o <<"\") | .html_url">> >>

PrCreateArgs(verbose) ==
    <<S("pr"), S("create"), IF verbose THEN S("--fill-verbose") ELSE S("--fill")>>

(* ------------------------------- state -------------------------------- *)

VARIABLES
    CheckName,      \* Signoff.CheckName
    checkNameOpt,   \* the CheckName option the constructor was given
    serialized,     \* whether the callers invoke functions one at a time
    Container,      \* Signoff.Container: the chain of execs and what evaluating it yields
    printed,        \* the lines written with fmt.Println / fmt.Printf
    call,           \* per caller: the exposed function it invoked last
    stack,          \* per caller: the frames still to run, innermost last
    loc,            \* per caller: the local variables of its frames
    rv,             \* per caller: what the function that returned last returned
    nCalls,         \* number of functions invoked so far
    crossRead,      \* calls that read a result other than that of their own last exec
    overlapped      \* calls that ran while another call was running

vars == <<CheckName, checkNameOpt, serialized, Container, printed, call, stack,
          loc, rv, nCalls, crossRead, overlapped>>

\* The constructor: the check name defaults to "signoff".
New(opt) == IF opt = <<>> THEN S("signoff") ELSE opt[1]

\* container(): base() ends with the exec of gh auth setup-git; the execs appended
\* later can only run once that one has succeeded.
\* A container is its chain of execs, of which the model keeps the length n and
\* the last exec (its arguments, and in `by` the call that appended it and its
\* rank among the execs of that call), and the result of that last exec, which
\* is all that evaluating the container yields.
container ==
    [stdout |-> <<>>, stderr |-> <<>>, exitCode |-> 0,
     n |-> 1, args |-> SetupGitArgs, by |-> <<0, 0>>]

\* base is the length of the chain of execs when the function was invoked.
NoCall == [branch |-> <<>>, verbose |-> FALSE, op |-> "none", id |-> 0, base |-> 0]
NoRet == [from |-> "none", val |-> <<>>, err |-> Nil]
\* The locals of a call; ran is the record of the execs the call appended, each
\* with the result of running it, and read tells whether the result of the last
\* of them has been read.
NoLoc == [sha |-> <<>>, user |-> <<>>, branch |-> <<>>, tmp |-> 0, ran |-> <<>>,
          read |-> FALSE, stdOut |-> <<>>, stdErr |-> <<>>]

InitCommon ==
    /\ CheckName = New(checkNameOpt)
    /\ Container = container
    /\ printed = <<>>
    /\ call = [p \in Callers |-> NoCall]
    /\ stack = [p \in Callers |-> <<>>]
    /\ loc = [p \in Callers |-> NoLoc]
    /\ rv = [p \in Callers |-> NoRet]
    /\ nCalls = 0
    /\ crossRead = {}
    /\ overlapped = {}

\* The callers serialize their access to the session, as the module requires.
Init ==
    /\ checkNameOpt \in CheckNameOpts
    /\ serialized = TRUE
    /\ InitCommon

\* The callers may also invoke functions on the session concurrently; the
\* functions they invoke then do not use the check name.
InitConcurrent ==
    /\ checkNameOpt = <<>>
    /\ serialized = FALSE
    /\ InitCommon

(* ------------------------------ frames -------------------------------- *)

F(fn, pc) == [args |-> <<>>, fn |-> fn, pc |-> pc]

Running(p) == stack[p] # <<>>
Top(p) == stack[p][Len(stack[p])]
Rest(p) == SubSeq(stack[p], 1, Len(stack[p]) - 1)
At(p, fn, pc) == Running(p) /\ Top(p).fn = fn /\ Top(p).pc = pc

\* The running frame returns (val, err) to the frame below it.
Return(p, fn, val, err) ==
    /\ stack' = [stack EXCEPT ![p] = Rest(p)]
    /\ rv' = [rv EXCEPT ![p] = [from |-> fn, val |-> val, err |-> err]]

\* The running frame goes on with `frames`.
Continue(p, frames) ==
    /\ stack' = [stack EXCEPT ![p] = Rest(p) \o frames]
    /\ UNCHANGED rv

\* The exec whose result the accessors of caller p are meant to read.
OwnExec(p) == <<call[p].id, Len(loc[p].ran)>>

\* Caller p evaluates m.Container through an accessor.
Observe(p) ==
    crossRead' = IF Container.by # OwnExec(p)
                 THEN crossRead \cup {call[p].id} ELSE crossRead

(* ------------------- WithExec and the accessors ----------------------- *)

\* m.WithExec(args): the frame that appends the exec.
WithExec(args) == <<[args |-> args, fn |-> "WithExec", pc |-> "load"]>>
WithGitExec(args) == WithExec(<<S("git")>> \o args)
WithGhExec(args) == WithExec(<<S("gh")>> \o args)

\* m.Container = m.Container.WithExec(...), first half: m.Container is read.
WithExecLoad(p) ==
    /\ At(p, "WithExec", "load")
    /\ loc' = [loc EXCEPT ![p].tmp = Container.n]
    /\ stack' = [stack EXCEPT ![p][Len(stack[p])].pc = "store"]
    /\ UNCHANGED <<CheckName, checkNameOpt, serialized, Container, printed, call,
                   rv, nCalls, crossRead, overlapped>>

\* Mutant of WithExecStore: the container with the new exec is not assigned to
\* m.Container.
WithExecStore_NotInPlace(p) ==
    /\ At(p, "WithExec", "store")
    /\ \E r \in Results :
          loc' = [loc EXCEPT ![p].tmp = 0, ![p].read = FALSE,
                             ![p].ran = Append(@, [stdout |-> r.stdout,
                                                   stderr |-> r.stderr,
                                                   exitCode |-> r.exitCode,
                                                   args |-> Top(p).args])]
    /\ stack' = [stack EXCEPT ![p] = Rest(p)]
    /\ UNCHANGED <<CheckName, checkNameOpt, serialized, Container, printed, call, rv,
                   nCalls, crossRead, overlapped>>

\* Second half: the container with the new exec is assigned to m.Container.
\* Expect: ReturnTypeAny lets the exec end with any exit status.
WithExecStore(p) ==
    /\ At(p, "WithExec", "store")
    /\ \E r \in Results :
          /\ Container' =
                [stdout |-> r.stdout, stderr |-> r.stderr, exitCode |-> r.exitCode,
                 n |-> loc[p].tmp + 1, args |-> Top(p).args,
                 by |-> <<call[p].id, Len(loc[p].ran) + 1>>]
          /\ loc' = [loc EXCEPT ![p].tmp = 0, ![p].read = FALSE,
                                ![p].ran = Append(@, [stdout |-> r.stdout,
                                                      stderr |-> r.stderr,
                                                      exitCode |-> r.exitCode,
                                                      args |-> Top(p).args])]
    /\ stack' = [stack EXCEPT ![p] = Rest(p)]
    /\ UNCHANGED <<CheckName, checkNameOpt, serialized, printed, call, rv, nCalls,
                   crossRead, overlapped>>

\* m.Container.Stdout / Stderr / ExitCode: the result of the container's last exec,
\* or the engine's error.
Stdout(c, fails) ==
    IF fails THEN [val |-> <<>>, err |-> DaggerErr]
    ELSE [val |-> c.stdout, err |-> Nil]
Stderr(c, fails) ==
    IF fails THEN [val |-> <<>>, err |-> DaggerErr]
    ELSE [val |-> c.stderr, err |-> Nil]
ExitCode(c, fails) ==
    IF fails THEN [val |-> 0, err |-> DaggerErr]
    ELSE [val |-> c.exitCode, err |-> Nil]

\* Out, first accessor: stdOut, err := m.Container.Stdout(ctx)
OutStdout(p) ==
    /\ At(p, "Out", "stdout")
    /\ \E fails \in BOOLEAN :
          LET r == Stdout(Container, fails) IN
          IF r.err # Nil
          THEN /\ Return(p, "Out", <<>>, r.err)
               /\ loc' = [loc EXCEPT ![p].read = TRUE]
          ELSE /\ Continue(p, <<F("Out", "stderr")>>)
               /\ loc' = [loc EXCEPT ![p].read = TRUE, ![p].stdOut = r.val]
    /\ Observe(p)
    /\ UNCHANGED <<CheckName, checkNameOpt, serialized, Container, printed, call,
                   nCalls, overlapped>>

\* Out, second accessor: stdErr, err := m.Container.Stderr(ctx)
OutStderr(p) ==
    /\ At(p, "Out", "stderr")
    /\ \E fails \in BOOLEAN :
          LET r == Stderr(Container, fails) IN
          IF r.err # Nil
          THEN /\ Return(p, "Out", <<>>, r.err)
               /\ loc' = [loc EXCEPT ![p].read = TRUE]
          ELSE /\ Continue(p, <<F("Out", "exit")>>)
               /\ loc' = [loc EXCEPT ![p].read = TRUE, ![p].stdErr = r.val]
    /\ Observe(p)
    /\ UNCHANGED <<CheckName, checkNameOpt, serialized, Container, printed, call,
                   nCalls, overlapped>>

\* Mutant of OutResult: the output is dropped when the exit code is not zero.
OutResult_DropsOutput(stdOut, stdErr, exitCode) ==
    IF exitCode # 0 THEN [val |-> <<>>, err |-> ExitErr(exitCode)]
    ELSE [val |-> stdOut \o <<"\n">> \o stdErr, err |-> Nil]

\* What Out returns once the exit code is known.
OutResult(stdOut, stdErr, exitCode) ==
    LET out == stdOut \o <<"\n">> \o stdErr IN
    IF exitCode # 0 THEN [val |-> out, err |-> ExitErr(exitCode)]
    ELSE [val |-> out, err |-> Nil]

\* Out, third accessor: exitCode, err := m.Container.ExitCode(ctx)
OutExitCode(p) ==
    /\ At(p, "Out", "exit")
    /\ \E fails \in BOOLEAN :
          LET r == ExitCode(Container, fails) IN
          IF r.err # Nil
          THEN Return(p, "Out", <<>>, r.err)
          ELSE LET o == OutResult(loc[p].stdOut, loc[p].stdErr, r.val)
               IN  Return(p, "Out", o.val, o.err)
    /\ loc' = [loc EXCEPT ![p].read = TRUE]
    /\ Observe(p)
    /\ UNCHANGED <<CheckName, checkNameOpt, serialized, Container, printed, call,
                   nCalls, overlapped>>

(* ------------------------------ IsClean ------------------------------- *)

Others == <<CheckName, checkNameOpt, serialized, Container, printed, call, nCalls,
            overlapped>>

\* Caller p has read m.Container through an accessor.
Read(p) ==
    /\ loc' = [loc EXCEPT ![p].read = TRUE]
    /\ Observe(p)

\* Mutant of Dirty: only the accessor's error is looked at.
Dirty_IgnoresOutput(r) == r.err # Nil

\* Mutant of Untracked: only the accessor's error is looked at.
Untracked_IgnoresExitCode(r) == r.err # Nil

\* The three conditions of IsClean on what the accessor returned.
Dirty(r) == r.err # Nil \/ r.val # <<>>
Untracked(r) == r.err # Nil \/ r.val # 0
Ahead(r) == r.err # Nil \/ r.val # <<>>

\* The frames of a call of IsClean: it starts with git status --porcelain.
CallIsClean == <<F("IsClean", "status")>> \o WithGitExec(GitStatusArgs)

\* IsClean, first check: the stdout of git status --porcelain.
IsCleanStatus(p) ==
    /\ At(p, "IsClean", "status")
    /\ \E fails \in BOOLEAN :
          IF Dirty(Stdout(Container, fails))
          THEN Return(p, "IsClean", <<>>, ErrUncommitted)
          ELSE Continue(p, <<F("IsClean", "tracking")>> \o WithGitExec(RevParsePushArgs))
    /\ Read(p)
    /\ UNCHANGED Others

\* IsClean, second check: the exit code of git rev-parse --abbrev-ref @{push}.
IsCleanTracking(p) ==
    /\ At(p, "IsClean", "tracking")
    /\ \E fails \in BOOLEAN :
          IF Untracked(ExitCode(Container, fails))
          THEN Return(p, "IsClean", <<>>, ErrNoTracking)
          ELSE Continue(p, <<F("IsClean", "log")>> \o WithGitExec(LogPushArgs))
    /\ Read(p)
    /\ UNCHANGED Others

\* IsClean, third check: the stdout of git log @{push}..
IsCleanLog(p) ==
    /\ At(p, "IsClean", "log")
    /\ \E fails \in BOOLEAN :
          IF Ahead(Stdout(Container, fails))
          THEN Return(p, "IsClean", <<>>, ErrUnpushed)
          ELSE Return(p, "IsClean", <<>>, Nil)
    /\ Read(p)
    /\ UNCHANGED Others

(* ------------------- Sha, WhoIs, DefaultBranch ------------------------ *)

CallSha == <<F("Sha", "stdout")>> \o WithGitExec(RevParseHeadArgs)

\* What Sha returns for the result of Stdout.
ShaResult(r) ==
    IF r.err # Nil THEN [val |-> <<>>, err |-> r.err]
    ELSE [val |-> TrimSpace(r.val), err |-> Nil]

\* Sha: the stdout of git rev-parse HEAD.
ShaStdout(p) ==
    /\ At(p, "Sha", "stdout")
    /\ \E fails \in BOOLEAN :
          LET s == ShaResult(Stdout(Container, fails))
          IN  Return(p, "Sha", s.val, s.err)
    /\ Read(p)
    /\ UNCHANGED Others

CallWhoIs == <<F("WhoIs", "out"), F("Out", "stdout")>> \o WithGhExec(WhoAmIArgs)

\* What WhoIs returns for the result of Out.
WhoIsResult(r) ==
    IF r.err # Nil THEN [val |-> <<>>, err |-> r.err]
    ELSE [val |-> TrimSpace(r.val), err |-> Nil]

\* WhoIs: after Out returned.
WhoIsOut(p) ==
    /\ At(p, "WhoIs", "out")
    /\ LET w == WhoIsResult(rv[p])
       IN  Return(p, "WhoIs", w.val, w.err)
    /\ UNCHANGED <<loc, crossRead>>
    /\ UNCHANGED Others

CallDefaultBranch == <<F("DefaultBranch", "stdout")>> \o WithGhExec(DefaultBranchArgs)

\* What DefaultBranch returns for the result of Stdout: the result itself.
DefaultBranchResult(r) == r

\* DefaultBranch: the stdout of gh api repos/:owner/:repo --jq .default_branch.
DefaultBranchStdout(p) ==
    /\ At(p, "DefaultBranch", "stdout")
    /\ \E fails \in BOOLEAN :
          LET d == DefaultBranchResult(Stdout(Container, fails))
          IN  Return(p, "DefaultBranch", d.val, d.err)
    /\ Read(p)
    /\ UNCHANGED Others

(* ------------------------------- Create ------------------------------- *)

Local(p) == UNCHANGED <<CheckName, checkNameOpt, serialized, Container, call, nCalls,
                        overlapped, crossRead>>

\* Mutant of CreateAfterIsClean: the error of IsClean is not returned.
CreateAfterIsClean_IgnoresErr(p) ==
    /\ At(p, "Create", "afterIsClean")
    /\ Continue(p, <<F("Create", "afterSha")>> \o CallSha)
    /\ UNCHANGED <<loc, printed>>
    /\ Local(p)

\* Create, after IsClean returned.
CreateAfterIsClean(p) ==
    /\ At(p, "Create", "afterIsClean")
    /\ IF rv[p].err # Nil
       THEN Return(p, "Create", <<>>, rv[p].err)
       ELSE Continue(p, <<F("Create", "afterSha")>> \o CallSha)
    /\ UNCHANGED <<loc, printed>>
    /\ Local(p)

\* Create, after Sha returned.
CreateAfterSha(p) ==
    /\ At(p, "Create", "afterSha")
    /\ IF rv[p].err # Nil
       THEN /\ Return(p, "Create", <<>>, rv[p].err)
            /\ UNCHANGED loc
       ELSE /\ Continue(p, <<F("Create", "afterWhoIs")>> \o CallWhoIs)
            /\ loc' = [loc EXCEPT ![p].sha = rv[p].val]
    /\ UNCHANGED printed
    /\ Local(p)

\* Create, after WhoIs returned: the commit status request.
CreateAfterWhoIs(p) ==
    /\ At(p, "Create", "afterWhoIs")
    /\ IF rv[p].err # Nil
       THEN /\ Return(p, "Create", <<>>, rv[p].err)
            /\ UNCHANGED loc
       ELSE /\ Continue(p, <<F("Create", "afterOut"), F("Out", "stdout")>>
                            \o WithGhExec(StatusArgs(loc[p].sha, CheckName, rv[p].val)))
            /\ loc' = [loc EXCEPT ![p].user = rv[p].val]
    /\ UNCHANGED printed
    /\ Local(p)

SignedOffLine(sha) == <<CheckMark, " Signed off on ">> \o sha

\* Create, after the Out of the commit status request returned.
CreateAfterOut(p) ==
    /\ At(p, "Create", "afterOut")
    /\ IF rv[p].err # Nil
       THEN /\ Return(p, "Create", <<>>, Err(rv[p].val \o <<": ">> \o Msg(rv[p].err)))
            /\ UNCHANGED printed
       ELSE /\ printed' = Append(printed, SignedOffLine(loc[p].sha))
            /\ Return(p, "Create", <<>>, Nil)
    /\ UNCHANGED loc
    /\ Local(p)

(* ------------------------ Install, Uninstall -------------------------- *)

ErrDefaultBranch(err) == Err(<<"could not get the default branch: ">> \o Msg(err))
ErrInstallNoBranch == Err(S("could not install without a branch name"))
ErrUninstallNoBranch == Err(S("could not uninstall without a branch name"))

ErrInstall(checkName, branch, err, out) ==
    Err(<<"could not install signoff check ">> \o Quote(checkName) \o <<" to branch ">>
        \o Quote(branch) \o <<": ">> \o Msg(err) \o <<"\n">> \o out)

ErrUninstall(branch, err, out) ==
    Err(<<"could not uninstall branch protection for branch ">> \o Quote(branch)
        \o <<": ">> \o Msg(err) \o <<"\n">> \o out)

InstalledLine(checkName, branch) ==
    <<CheckMark, " GitHub ">> \o checkName \o <<" branch now requires signoff on check ">>
    \o Quote(branch)

UninstalledLine(checkName) ==
    <<CheckMark, " GitHub ">> \o checkName \o <<" branch no longer requires signoff">>

\* Install from `if branch == ""` of line 124 on: the protection request.
InstallRequest(branch) ==
    <<F("Install", "afterOut"), F("Out", "stdout")>>
    \o WithGhExec(InstallArgs(branch, CheckName))

\* Uninstall from `if branch == ""` of line 164 on: the protection request.
UninstallRequest(branch) ==
    <<F("Uninstall", "afterOut"), F("Out", "stdout")>> \o WithGhExec(UninstallArgs(branch))

\* Mutant of HasBranch: the branch name is not checked.
HasBranch_Always(branch) == TRUE

\* Whether Install / Uninstall go on to the protection request with this branch.
HasBranch(branch) == branch # <<>>

\* Install, after DefaultBranch returned.
InstallAfterDefaultBranch(p) ==
    /\ At(p, "Install", "afterDefaultBranch")
    /\ IF rv[p].err # Nil
       THEN /\ Return(p, "Install", <<>>, ErrDefaultBranch(rv[p].err))
            /\ UNCHANGED loc
       ELSE /\ loc' = [loc EXCEPT ![p].branch = rv[p].val]
            /\ IF HasBranch(rv[p].val)
               THEN Continue(p, InstallRequest(rv[p].val))
               ELSE Return(p, "Install", <<>>, ErrInstallNoBranch)
    /\ UNCHANGED printed
    /\ Local(p)

\* Install, after the Out of the protection request returned.
InstallAfterOut(p) ==
    /\ At(p, "Install", "afterOut")
    /\ IF rv[p].err # Nil
       THEN /\ Return(p, "Install", <<>>,
                      ErrInstall(CheckName, loc[p].branch, rv[p].err, rv[p].val))
            /\ UNCHANGED printed
       ELSE /\ printed' = Append(printed, InstalledLine(CheckName, loc[p].branch))
            /\ Return(p, "Install", <<>>, Nil)
    /\ UNCHANGED loc
    /\ Local(p)

\* Uninstall, after DefaultBranch returned.
UninstallAfterDefaultBranch(p) ==
    /\ At(p, "Uninstall", "afterDefaultBranch")
    /\ IF rv[p].err # Nil
       THEN /\ Return(p, "Uninstall", <<>>, ErrDefaultBranch(rv[p].err))
            /\ UNCHANGED loc
       ELSE /\ loc' = [loc EXCEPT ![p].branch = rv[p].val]
            /\ IF HasBranch(rv[p].val)
               THEN Continue(p, UninstallRequest(rv[p].val))
               ELSE Return(p, "Uninstall", <<>>, ErrUninstallNoBranch)
    /\ UNCHANGED printed
    /\ Local(p)

\* Uninstall, after the Out of the protection request returned.
UninstallAfterOut(p) ==
    /\ At(p, "Uninstall", "afterOut")
    /\ IF rv[p].err # Nil
       THEN /\ Return(p, "Uninstall", <<>>, ErrUninstall(loc[p].branch, rv[p].err, rv[p].val))
            /\ UNCHANGED printed
       ELSE /\ printed' = Append(printed, UninstalledLine(CheckName))
            /\ Return(p, "Uninstall", <<>>, Nil)
    /\ UNCHANGED loc
    /\ Local(p)

(* ------------------------- PullRequest, OpenPR ------------------------ *)

\* PullRequest, after DefaultBranch returned: the pull request query.
PullRequestAfterDefaultBranch(p) ==
    /\ At(p, "PullRequest", "afterDefaultBranch")
    /\ IF rv[p].err # Nil
       THEN /\ Return(p, "PullRequest", <<>>, rv[p].err)
            /\ UNCHANGED loc
       ELSE /\ Continue(p, <<F("PullRequest", "stdout")>> \o WithGhExec(PullsArgs(rv[p].val)))
            /\ loc' = [loc EXCEPT ![p].branch = rv[p].val]
    /\ UNCHANGED printed
    /\ Local(p)

\* PullRequest: the stdout of the pull request query.
PullRequestStdout(p) ==
    /\ At(p, "PullRequest", "stdout")
    /\ \E fails \in BOOLEAN :
          LET r == Stdout(Container, fails) IN
          IF r.err # Nil
          THEN Return(p, "PullRequest", <<>>, r.err)
          ELSE Return(p, "PullRequest", TrimSpace(r.val), Nil)
    /\ Read(p)
    /\ UNCHANGED Others

\* OpenPR returns what the Out of gh pr create returns.
CallOpenPR(verbose) == <<F("Out", "stdout")>> \o WithGhExec(PrCreateArgs(verbose))

(* ------------------------ the exposed functions ----------------------- *)

\* The most execs a call of op appends.
Cost(op, branch) ==
    CASE op = "Create" -> 6
      [] op = "IsClean" -> 3
      [] op = "PullRequest" -> 2
      [] op \in {"Install", "Uninstall"} -> IF branch = <<>> THEN 2 ELSE 1
      [] OTHER -> 1

\* The execs appended since the constructor, and those the running calls may yet append.
Appended == Container.n - 1

RECURSIVE SumPending(_)
SumPending(ps) ==
    IF ps = {} THEN 0
    ELSE LET q == CHOOSE x \in ps : TRUE
         IN  (Cost(call[q].op, call[q].branch) - Len(loc[q].ran)) + SumPending(ps \ {q})

Pending == SumPending({q \in Callers : Running(q)})

Budget == IF serialized THEN MaxExecs ELSE MaxOverlapExecs

\* Caller p invokes the exposed function op, which starts with `frames`.
Invoke(p, op, branch, verbose, frames) ==
    /\ call[p] = NoCall
    /\ \A q \in Callers : Running(q) \/ call[q] = NoCall
    /\ serialized => \A q \in Callers : ~Running(q)
    /\ nCalls < MaxOps
    /\ Appended + Pending + Cost(op, branch) <= Budget
    /\ nCalls' = nCalls + 1
    /\ call' = [call EXCEPT ![p] = [branch |-> branch, verbose |-> verbose, op |-> op,
                                    id |-> nCalls + 1, base |-> Container.n]]
    /\ stack' = [stack EXCEPT ![p] = frames]
    /\ loc' = [loc EXCEPT ![p] = [NoLoc EXCEPT !.branch = branch]]
    /\ rv' = [rv EXCEPT ![p] = NoRet]
    /\ overlapped' =
          LET busy == {q \in Callers : Running(q)} IN
          IF busy = {} THEN overlapped
          ELSE overlapped \cup {nCalls + 1} \cup {call[q].id : q \in busy}
    /\ UNCHANGED <<CheckName, checkNameOpt, serialized, Container, printed, crossRead>>

IsClean(p) == Invoke(p, "IsClean", <<>>, FALSE, CallIsClean)

Create(p) ==
    Invoke(p, "Create", <<>>, FALSE, <<F("Create", "afterIsClean")>> \o CallIsClean)

Install(p, branch) ==
    Invoke(p, "Install", branch, FALSE,
           IF branch = <<>>
           THEN <<F("Install", "afterDefaultBranch")>> \o CallDefaultBranch
           ELSE InstallRequest(branch))

Uninstall(p, branch) ==
    Invoke(p, "Uninstall", branch, FALSE,
           IF branch = <<>>
           THEN <<F("Uninstall", "afterDefaultBranch")>> \o CallDefaultBranch
           ELSE UninstallRequest(branch))

Sha(p) == Invoke(p, "Sha", <<>>, FALSE, CallSha)

WhoIs(p) == Invoke(p, "WhoIs", <<>>, FALSE, CallWhoIs)

PullRequest(p) ==
    Invoke(p, "PullRequest", <<>>, FALSE,
           <<F("PullRequest", "afterDefaultBranch")>> \o CallDefaultBranch)

OpenPR(p, verbose) == Invoke(p, "OpenPR", <<>>, verbose, CallOpenPR(verbose))

DefaultBranch(p) == Invoke(p, "DefaultBranch", <<>>, FALSE, CallDefaultBranch)

\* The function caller p invoked has returned: the caller takes what it returned.
Returned(p) ==
    /\ ~Running(p)
    /\ call[p] # NoCall
    /\ call' = [call EXCEPT ![p] = NoCall]
    /\ loc' = [loc EXCEPT ![p] = NoLoc]
    /\ rv' = [rv EXCEPT ![p] = NoRet]
    /\ UNCHANGED <<CheckName, checkNameOpt, serialized, Container, printed, stack,
                   nCalls, crossRead, overlapped>>

Next ==
    \E p \in Callers :
        \/ IsClean(p)
        \/ Create(p)
        \/ \E branch \in Branches : Install(p, branch)
        \/ \E branch \in Branches : Uninstall(p, branch)
        \/ Sha(p)
        \/ WhoIs(p)
        \/ PullRequest(p)
        \/ \E verbose \in BOOLEAN : OpenPR(p, verbose)
        \/ DefaultBranch(p)
        \/ Returned(p)
        \/ WithExecLoad(p)
        \/ WithExecStore(p)
        \/ OutStdout(p)
        \/ OutStderr(p)
        \/ OutExitCode(p)
        \/ IsCleanStatus(p)
        \/ IsCleanTracking(p)
        \/ IsCleanLog(p)
        \/ ShaStdout(p)
        \/ WhoIsOut(p)
        \/ DefaultBranchStdout(p)
        \/ CreateAfterIsClean(p)
        \/ CreateAfterSha(p)
        \/ CreateAfterWhoIs(p)
        \/ CreateAfterOut(p)
        \/ InstallAfterDefaultBranch(p)
        \/ InstallAfterOut(p)
        \/ UninstallAfterDefaultBranch(p)
        \/ UninstallAfterOut(p)
        \/ PullRequestAfterDefaultBranch(p)
        \/ PullRequestStdout(p)

\* One session used as the module requires: one function at a time.
Spec == Init /\ [][Next]_vars

\* Three of the functions and the steps they are made of: Sha reads its
\* command with Stdout, OpenPR reads it with Out, PullRequest runs two commands.
NextConcurrent ==
    \E p \in Callers :
        \/ Sha(p)
        \/ \E verbose \in BOOLEAN : OpenPR(p, verbose)
        \/ PullRequest(p)
        \/ Returned(p)
        \/ WithExecLoad(p)
        \/ WithExecStore(p)
        \/ OutStdout(p)
        \/ OutStderr(p)
        \/ OutExitCode(p)
        \/ ShaStdout(p)
        \/ DefaultBranchStdout(p)
        \/ PullRequestAfterDefaultBranch(p)
        \/ PullRequestStdout(p)

\* One session on which these functions may be invoked concurrently.
SpecConcurrent == InitConcurrent /\ [][NextConcurrent]_vars

(* ------------------------------ properties ---------------------------- *)

\* The function caller p invoked has returned and rv[p] is what it returned.
Finished(p) == ~Running(p) /\ call[p] # NoCall

\* The execs the call of caller p appended, in order, with their results.
Ran(p) == loc[p].ran

\* Every exec appended to the session since caller p invoked its function was
\* appended by that call.
OnlyOwnExecs(p) == Container.n = call[p].base + Len(Ran(p))

IsCleanErrors == {ErrUncommitted, ErrNoTracking, ErrUnpushed}

IsCleanArgs ==
    <<WithGitExec(GitStatusArgs)[1].args,
      WithGitExec(RevParsePushArgs)[1].args,
      WithGitExec(LogPushArgs)[1].args>>

\* The three checks of IsClean were run and found the repository clean.
ChecksPassed(ran) ==
    /\ Len(ran) >= 3
    /\ ran[1].stdout = <<>>
    /\ ran[2].exitCode = 0
    /\ ran[3].stdout = <<>>

\* The calls of IsClean and Create start with the commands of the three checks.
ChecksInOrder(ran) ==
    \A i \in 1..Len(ran) : i <= 3 => ran[i].args = IsCleanArgs[i]

IsStatusPost(args) ==
    /\ Len(args) >= 5
    /\ SubSeq(args, 1, 4) = <<S("gh"), S("api"), S("--method"), S("POST")>>

\* C1: Create issues no command after the three checks (no git rev-parse HEAD, no
\* gh api user, no status POST) unless the three checks found the repository
\* clean, and when IsClean fails Create returns the error of IsClean with at
\* most the three check commands appended to the session.
C1_NoStatusPostUnlessClean ==
    \A p \in Callers :
        call[p].op = "Create" =>
            /\ OnlyOwnExecs(p)
            /\ ChecksInOrder(Ran(p))
            /\ \A i \in 1..Len(Ran(p)) : IsStatusPost(Ran(p)[i].args) => i = 6
            /\ Len(Ran(p)) > 3 => ChecksPassed(Ran(p))
            /\ (Finished(p) /\ ~ChecksPassed(Ran(p))) =>
                   rv[p].err \in IsCleanErrors /\ Len(Ran(p)) <= 3
            /\ (Finished(p) /\ rv[p].err \in IsCleanErrors) => Len(Ran(p)) <= 3

\* Create returned the error of the third check and appended nothing after it.
C1_Witness ==
    \E p \in Callers :
        /\ call[p].op = "Create"
        /\ Finished(p)
        /\ rv[p].err = ErrUnpushed
        /\ Len(Ran(p)) = 3
        /\ Ran(p)[3].stdout # <<>>

\* C2: IsClean returns nil only if git status --porcelain printed nothing, git
\* rev-parse --abbrev-ref @{push} exited with 0 and git log @{push}.. printed
\* nothing; whenever one of the three does not hold it returns an error.
C2_NilOnlyIfAllThree ==
    \A p \in Callers :
        rv[p].from = "IsClean" =>
            /\ ChecksInOrder(Ran(p))
            /\ rv[p].err = Nil => ChecksPassed(Ran(p))
            /\ ~ChecksPassed(Ran(p)) => rv[p].err # Nil

\* IsClean returned nil.
C2_Witness ==
    \E p \in Callers :
        /\ call[p].op = "IsClean"
        /\ Finished(p)
        /\ rv[p].err = Nil
        /\ Ran(p)[2].exitCode = 0

\* C3: IsClean runs its checks in the order dirty, untracked, ahead and stops at
\* the first that fails: its error is the message of that check, the three
\* messages differ, and no command of a later check has been appended.
C3_FirstFailureWins ==
    /\ Cardinality(IsCleanErrors) = 3
    /\ \A p \in Callers :
        (rv[p].from = "IsClean" /\ rv[p].err # Nil) =>
            LET ran == Ran(p) IN
            /\ OnlyOwnExecs(p)
            /\ ChecksInOrder(ran)
            /\ \/ /\ rv[p].err = ErrUncommitted
                  /\ Len(ran) = 1
               \/ /\ rv[p].err = ErrNoTracking
                  /\ Len(ran) = 2
                  /\ ran[1].stdout = <<>>
               \/ /\ rv[p].err = ErrUnpushed
                  /\ Len(ran) = 3
                  /\ ran[1].stdout = <<>>
                  /\ ran[2].exitCode = 0

\* IsClean failed on its second check, after the first had passed.
C3_Witness ==
    \E p \in Callers :
        /\ rv[p].from = "IsClean"
        /\ rv[p].err = ErrNoTracking
        /\ Len(Ran(p)) = 2
        /\ Ran(p)[2].exitCode # 0

\* What Sha and WhoIs make of the results of their commands.
ShaOf(e) == TrimSpace(e.stdout)
UserOf(e) == TrimSpace(e.stdout \o <<"\n">> \o e.stderr)

DefaultCheckName == S("signoff")

\* C5: the status POST of Create targets repos/:owner/:repo/statuses/S where S is
\* what Sha returned for HEAD, with state=success, the context the configured
\* check name ("signoff" when none was given) and a description that contains
\* the identity U that WhoIs returned.
C5_StatusPostArgs ==
    \A p \in Callers :
        (call[p].op = "Create" /\ Len(Ran(p)) >= 6) =>
            LET ran == Ran(p)
                a == ran[6].args
            IN  /\ ran[4].args = <<S("git")>> \o RevParseHeadArgs
                /\ ran[5].args = <<S("gh")>> \o WhoAmIArgs
                /\ loc[p].sha = ShaOf(ran[4])
                /\ loc[p].user = UserOf(ran[5])
                /\ Len(a) = 11
                /\ IsStatusPost(a)
                /\ a[5] = <<"repos/:owner/:repo/statuses/">> \o ShaOf(ran[4])
                /\ a[6] = S("-f") /\ a[7] = S("state=success")
                /\ a[8] = S("-f")
                /\ a[9] = <<"context=">> \o
                            (IF checkNameOpt = <<>> THEN DefaultCheckName
                             ELSE checkNameOpt[1])
                /\ a[10] = S("-f")
                /\ Head(a[11]) = "description=\""
                /\ Contains(a[11], UserOf(ran[5]) \o <<" signed off\"">>)

\* Create issued the status POST with the default check name, for a HEAD and a
\* user that the commands printed with a newline.
C5_Witness ==
    \E p \in Callers :
        /\ call[p].op = "Create"
        /\ Len(Ran(p)) = 6
        /\ checkNameOpt = <<>>
        /\ Ran(p)[4].stdout = <<"a", "\n">>
        /\ Ran(p)[5].stdout = <<"a", "\n">>
        /\ Ran(p)[6].args[5] = <<"repos/:owner/:repo/statuses/", "a">>

ProtectionArgs(op, branch) ==
    <<S("gh")>> \o (IF op = "Install" THEN InstallArgs(branch, CheckName)
                    ELSE UninstallArgs(branch))

C10_OutResult ==
    \A p \in Callers :
        rv[p].from = "Out" =>
            LET e == Ran(p)[Len(Ran(p))]
                out == e.stdout \o <<"\n">> \o e.stderr
            IN  /\ Container.by = OwnExec(p)
                /\ Container.args = e.args
                /\ \/ rv[p].err = DaggerErr /\ rv[p].val = <<>>
                   \/ e.exitCode = 0 /\ rv[p].err = Nil /\ rv[p].val = out
                   \/ /\ e.exitCode # 0
                      /\ rv[p].err = ExitErr(e.exitCode)
                      /\ rv[p].val = out

\* Out returned the output of a command that failed together with the error.
C10_Witness ==
    \E p \in Callers :
        /\ rv[p].from = "Out"
        /\ rv[p].err = Err(<<"exit code ", "1">>)
        /\ rv[p].val = <<"a", "\n", "\n", "e">>

InWithExec(p) == Running(p) /\ Top(p).fn = "WithExec"

\* C9: a function reads the result of the command it appended before it appends
\* the next one, a command is appended in place to the one container of the
\* session, and an accessor reads the result of another command than the one
\* its own call appended last only in a call that ran while another call was
\* running.
C9_CrossReadOnlyWhenOverlapped ==
    /\ crossRead \subseteq overlapped
    /\ \A p \in Callers :
          /\ (InWithExec(p) /\ Ran(p) # <<>>) => loc[p].read
          /\ (Running(p) /\ ~InWithExec(p) /\ call[p].id \notin overlapped) =>
                 /\ Container.by = OwnExec(p)
                 /\ Container.args = Ran(p)[Len(Ran(p))].args
                 /\ Container.exitCode = Ran(p)[Len(Ran(p))].exitCode

\* A call read the result of a command that another call had appended.
C9_Witness ==
    \E p \in Callers :
        /\ call[p].id \in crossRead
        /\ call[p].id \in overlapped
        /\ Container.by[1] # call[p].id

\* C4: whatever fails in Create (the checks, git rev-parse HEAD, gh api user, the
\* status POST) makes Create return an error, without the status POST when the
\* failure comes before it; the line "Signed off on" is printed only when every
\* command succeeded.
C4_AnyFailureAborts ==
    \A p \in Callers :
        call[p].op = "Create" =>
            LET ran == Ran(p) IN
            /\ \A i \in 1..Len(ran) :
                  (i \in {4, 5} /\ ran[i].exitCode # 0) =>
                      /\ Len(ran) < 6
                      /\ Finished(p) => rv[p].err # Nil
            /\ (Finished(p) /\ Len(ran) = 6 /\ ran[6].exitCode # 0) =>
                  rv[p].err = Err(ran[6].stdout \o <<"\n">> \o ran[6].stderr
                                  \o <<": ">> \o Msg(ExitErr(ran[6].exitCode)))
            /\ (Finished(p) /\ rv[p].err = Nil) =>
                  \A i \in 1..Len(ran) : i >= 4 => ran[i].exitCode = 0

\* C7: what DefaultBranch, Sha and WhoIs return has no leading and no trailing
\* white space.
C7_ReturnedTrimmed ==
    \A p \in Callers :
        (rv[p].from \in {"DefaultBranch", "Sha", "WhoIs"} /\ rv[p].err = Nil) =>
            /\ rv[p].val = TrimSpace(rv[p].val)
            /\ rv[p].val # <<>> => ~IsSpace(Head(rv[p].val))
                                   /\ ~IsSpace(rv[p].val[Len(rv[p].val)])

\* C8: in IsClean, DefaultBranch, PullRequest, OpenPR, Install and Uninstall a
\* command that exits with a nonzero status is the last one of the call, and
\* the call returns an error.
C8_FailureIsTerminal ==
    \A p \in Callers :
        call[p].op \in {"IsClean", "DefaultBranch", "PullRequest", "OpenPR",
                        "Install", "Uninstall"} =>
            \A i \in 1..Len(Ran(p)) :
                Ran(p)[i].exitCode # 0 =>
                    /\ i = Len(Ran(p))
                    /\ Finished(p) => rv[p].err # Nil

====
